---- MODULE Spec2Model ----
(***************************************************************************)
(* Model of the cosmic-ext-clankers applet: the update loop of AppModel    *)
(* (src/src/app.rs) and the request routine get_gemini_response            *)
(* (src/src/models/gemini/mod.rs) with the response types of               *)
(* src/src/models/gemini/gemini.rs.                                        *)
(*                                                                         *)
(* Option<T> is modelled as a sequence of length at most one: <<>> is None *)
(* and <<x>> is Some(x).  Vec<T> is a sequence.  String is a TLA+ string.  *)
(***************************************************************************)
EXTENDS Naturals, Sequences, FiniteSets, TLC

(* ------------------------------ bounds -------------------------------- *)

\* Longest chat_history the model lets SubmitInput build.
MaxHistory == 3
\* Number of popup ids Id::unique() hands out in a run.
MaxPopupIds == 1
\* Most candidates in a deserialized response.
MaxCandidates == 2
\* Most safety ratings in a deserialized response (over all its candidates).
MaxRatings == 2
\* Most content parts in a deserialized response (over all its candidates).
MaxParts == 2

(* ------------------------------ inputs -------------------------------- *)

\* Texts typed into the input field / carried by SubmitInput and InputChanged.
Texts == {"a", "b"}
\* Values of the persisted configuration (crate::config::Config), opaque here.
Configs == {"cfg0", "cfg1"}
\* Display strings of failures of send() and of json().
ErrorStrings == {"timeout"}
\* Texts of response parts.
PartTexts == {"reasoning", "final answer"}
\* message fields of a top-level error object.
ErrorMessages == {"quota exceeded"}
\* Debug names of HarmCategory variants that occur in the modelled responses.
HarmCategory == {"HarmCategoryHarassment", "HarmCategoryHateSpeech"}

None == <<>>
Some(x) == <<x>>
IsSome(o) == o # <<>>

\* All sequences over S of length at most n.
SeqsUpTo(S, n) == UNION {[1..k -> S] : k \in 0..n}

\* gemini.rs Part: only text is read by the classifier.
Part == [text : {None} \cup {Some(t) : t \in PartTexts}]
\* gemini.rs SafetyRating: category and blocked are read by the classifier.
SafetyRating == [category : HarmCategory, blocked : BOOLEAN]
\* gemini.rs ApiError: only message is read.
ApiErrorObj == [message : ErrorMessages]

NumRatings(c) == IF IsSome(c.safety_ratings) THEN Len(c.safety_ratings[1]) ELSE 0
NumParts(c) == Len(c.content.parts)

\* gemini.rs Candidate with at most r ratings and p parts.
Candidate(r, p) ==
    { [content |-> [parts |-> ps], safety_ratings |-> sr] :
        ps \in SeqsUpTo(Part, p),
        sr \in {None} \cup {Some(rs) : rs \in SeqsUpTo(SafetyRating, r)} }

\* Option<ApiError> values of the top-level error field.
ErrorField == {None} \cup {Some(e) : e \in ApiErrorObj}

(* -------------------- gemini::Message (mod.rs 10-18) ------------------- *)

ApiKeyNotSet == [tag |-> "ApiKeyNotSet", val |-> ""]
RequestError(s) == [tag |-> "RequestError", val |-> s]
ApiResultParsingError(s) == [tag |-> "ApiResultParsingError", val |-> s]
ApiError(s) == [tag |-> "ApiError", val |-> s]
PromptBlocked(s) == [tag |-> "PromptBlocked", val |-> s]
Response(s) == [tag |-> "Response", val |-> s]
EmptyResponse == [tag |-> "EmptyResponse", val |-> ""]

(* ---------------- convert_to_gemini_request (mod.rs 20-32) ------------- *)

convert_to_gemini_request_reversed(history) ==
    [contents |-> [i \in 1..Len(history) |->
        [role |-> history[Len(history) + 1 - i].role,
         parts |-> <<[text |-> history[Len(history) + 1 - i].content]>>]]]

convert_to_gemini_request(history) ==
    [contents |-> [i \in 1..Len(history) |->
        [role |-> history[i].role,
         parts |-> <<[text |-> history[i].content]>>]]]

(* ------------- classification tail of get_gemini_response -------------- *)

\* Option<Vec<T>>.iter().flatten(): the elements, none for None.
Flatten(opt) == IF IsSome(opt) THEN opt[1] ELSE <<>>

\* The inner for loop (mod.rs 64-71): the first rating with blocked = true.
RECURSIVE FirstBlocked(_, _)
FirstBlocked(ratings, j) ==
    IF j > Len(ratings) THEN None
    ELSE IF ratings[j].blocked THEN Some(ratings[j])
    ELSE FirstBlocked(ratings, j + 1)

\* format!("<warning sign> Prompt Blocked by category: {:?}", category); the
\* leading warning-sign character is written out in ASCII.
FormatBlocked(category) == "(!) Prompt Blocked by category: " \o category

SelectedPart_first(parts) == IF parts = <<>> THEN None ELSE Some(parts[1])

\* candidate.content.parts.iter().last()
SelectedPart(parts) == IF parts = <<>> THEN None ELSE Some(parts[Len(parts)])

PartText_or_default(part) == IF IsSome(part.text) THEN part.text ELSE Some("")

\* part.text.as_deref()
PartText(part) == part.text

\* The for loop over the candidates from candidate i on (mod.rs 63-89).
RECURSIVE ScanCandidates(_, _)
ScanCandidates(cands, i) ==
    IF i > Len(cands) THEN EmptyResponse
    ELSE LET candidate == cands[i]
             hit == FirstBlocked(Flatten(candidate.safety_ratings), 1)
             part == SelectedPart(candidate.content.parts)
         IN  IF IsSome(hit) THEN PromptBlocked(FormatBlocked(hit[1].category))
             ELSE IF IsSome(part) /\ IsSome(PartText(part[1]))
                  THEN Response(PartText(part[1])[1])
             ELSE ScanCandidates(cands, i + 1)

ClassifyResponse_candidates_first(response) ==
    LET scanned == ScanCandidates(Flatten(response.candidates), 1)
    IN  IF scanned # EmptyResponse THEN scanned
        ELSE IF IsSome(response.error) THEN ApiError(response.error[1].message)
        ELSE EmptyResponse

\* mod.rs 58-89: what get_gemini_response returns for a deserialized response.
ClassifyResponse(response) ==
    IF IsSome(response.error) THEN ApiError(response.error[1].message)
    ELSE ScanCandidates(Flatten(response.candidates), 1)


(* ------------------------------- state -------------------------------- *)

VARIABLES
    popup,          \* AppModel.popup: Option<Id>
    next_id,        \* the counter behind Id::unique()
    config,         \* AppModel.config
    input_text,     \* AppModel.input_text
    chat_history,   \* AppModel.chat_history: the Vec<Chat> behind the Arc
    is_loading,     \* AppModel.is_loading
    api_key,        \* env::var("GEMINI_API_KEY"): Option<String>
    tasks,          \* the futures returned by update and not yet delivered
    last_event      \* what the runtime did last: a message handled by update,
                    \* or a poll of a future

vars == <<popup, next_id, config, input_text, chat_history, is_loading,
          api_key, tasks, last_event>>

app_vars == <<popup, next_id, config, input_text, chat_history, is_loading>>

\* app.rs Chat
Chat(role, content) == [role |-> role, content |-> content]

\* A future created by SubmitInput (app.rs 210-213), before its first poll.
\* history is what its clone of the Arc points to.
NewTask(history) ==
    [pc |-> "spawned", history |-> history, prompt |-> None, requests |-> 0,
     send_error |-> None, response |-> None, outcome |-> None]

\* A future holds its clone of the Arc until get_gemini_response returns.
HoldsArc(t) == t.pc # "done"

\* Arc::strong_count(&self.chat_history)
StrongCount == 1 + Cardinality({i \in 1..Len(tasks) : HoldsArc(tasks[i])})

\* Arc::get_mut(&mut self.chat_history).is_some()
ArcGetMut == StrongCount = 1

Poll == [type |-> "Poll"]

Init ==
    /\ popup = None
    /\ next_id = 1
    /\ config \in Configs
    /\ input_text = ""
    /\ chat_history = <<>>
    /\ is_loading = FALSE
    /\ api_key \in {None, Some("key")}
    /\ tasks = <<>>
    /\ last_event = [type |-> "Init"]

(* ------------------- AppModel::update (app.rs 192-295) ----------------- *)

\* Message::InputChanged (app.rs 194-196)
InputChanged(text) ==
    /\ input_text' = text
    /\ last_event' = [type |-> "InputChanged", text |-> text]
    /\ UNCHANGED <<popup, next_id, config, chat_history, is_loading, api_key, tasks>>

SubmitInput_unguarded(text) ==
    /\ Len(chat_history) < MaxHistory
    /\ last_event' = [type |-> "SubmitInput", text |-> text]
    /\ is_loading' = TRUE
    /\ chat_history' = Append(chat_history, Chat("user", text))
    /\ input_text' = ""
    /\ tasks' = Append(tasks, NewTask(chat_history'))
    /\ UNCHANGED <<popup, next_id, config, api_key>>

SubmitInput_no_task(text) ==
    /\ Len(chat_history) < MaxHistory
    /\ last_event' = [type |-> "SubmitInput", text |-> text]
    /\ IF is_loading \/ ~ArcGetMut
       THEN UNCHANGED <<is_loading, chat_history, input_text>>
       ELSE /\ is_loading' = TRUE
            /\ chat_history' = Append(chat_history, Chat("user", text))
            /\ input_text' = ""
    /\ UNCHANGED <<popup, next_id, config, api_key, tasks>>

\* Message::SubmitInput (app.rs 197-214)
SubmitInput(text) ==
    /\ Len(chat_history) < MaxHistory
    /\ last_event' = [type |-> "SubmitInput", text |-> text]
    /\ IF is_loading \/ ~ArcGetMut
       THEN UNCHANGED <<is_loading, chat_history, input_text, tasks>>
       ELSE /\ is_loading' = TRUE
            /\ chat_history' = Append(chat_history, Chat("user", text))
            /\ input_text' = ""
            /\ tasks' = Append(tasks, NewTask(chat_history'))
    /\ UNCHANGED <<popup, next_id, config, api_key>>

\* Message::UrlClicked (app.rs 215)
UrlClicked ==
    /\ last_event' = [type |-> "UrlClicked"]
    /\ UNCHANGED <<app_vars, api_key, tasks>>

\* Message::SubscriptionChannel (app.rs 216-218)
SubscriptionChannel ==
    /\ last_event' = [type |-> "SubscriptionChannel"]
    /\ UNCHANGED <<app_vars, api_key, tasks>>

\* Message::UpdateConfig (app.rs 219-221)
UpdateConfig(c) ==
    /\ config' = c
    /\ last_event' = [type |-> "UpdateConfig", config |-> c]
    /\ UNCHANGED <<popup, next_id, input_text, chat_history, is_loading, api_key, tasks>>

\* Message::TogglePopup (app.rs 222-237)
TogglePopup ==
    /\ last_event' = [type |-> "TogglePopup"]
    /\ IF IsSome(popup)
       THEN popup' = None /\ UNCHANGED next_id
       ELSE /\ next_id <= MaxPopupIds
            /\ popup' = Some(next_id)
            /\ next_id' = next_id + 1
    /\ UNCHANGED <<config, input_text, chat_history, is_loading, api_key, tasks>>

\* Message::PopupClosed (app.rs 238-242)
PopupClosed(id) ==
    /\ last_event' = [type |-> "PopupClosed", id |-> id]
    /\ popup' = IF popup = Some(id) THEN None ELSE popup
    /\ UNCHANGED <<next_id, config, input_text, chat_history, is_loading, api_key, tasks>>

\* The content of the turn pushed for each gemini::Message (app.rs 248-291).
TurnContent(message) ==
    CASE message.tag = "RequestError" -> message.val
      [] message.tag = "ApiKeyNotSet" -> "API key not set"
      [] message.tag = "ApiResultParsingError" -> "API result parsing error: " \o message.val
      [] message.tag = "ApiError" -> "API error: " \o message.val
      [] message.tag = "EmptyResponse" -> "No response from model"
      [] message.tag = "PromptBlocked" -> "Prompt blocked: " \o message.val
      [] message.tag = "Response" -> message.val

\* tasks without its i-th element
RemoveAt(s, i) == SubSeq(s, 1, i - 1) \o SubSeq(s, i + 1, Len(s))

GeminiMessage_keeps_loading(i) ==
    /\ i \in 1..Len(tasks)
    /\ tasks[i].pc = "done"
    /\ LET message == tasks[i].outcome[1]
       IN  /\ last_event' = [type |-> "GeminiMessage", message |-> message]
           /\ tasks' = RemoveAt(tasks, i)
           /\ UNCHANGED is_loading
           /\ chat_history' = Append(chat_history, Chat("model", TurnContent(message)))
    /\ UNCHANGED <<popup, next_id, config, input_text, api_key>>

GeminiMessage_drops_empty(i) ==
    /\ i \in 1..Len(tasks)
    /\ tasks[i].pc = "done"
    /\ LET message == tasks[i].outcome[1]
       IN  /\ last_event' = [type |-> "GeminiMessage", message |-> message]
           /\ tasks' = RemoveAt(tasks, i)
           /\ is_loading' = FALSE
           /\ IF message.tag = "EmptyResponse"
              THEN UNCHANGED chat_history
              ELSE chat_history' =
                     Append(chat_history, Chat("model", TurnContent(message)))
    /\ UNCHANGED <<popup, next_id, config, input_text, api_key>>

\* Message::GeminiMessage (app.rs 243-292): the runtime delivers the output of
\* the i-th future, which has completed.
GeminiMessage(i) ==
    /\ i \in 1..Len(tasks)
    /\ tasks[i].pc = "done"
    /\ LET message == tasks[i].outcome[1]
       IN  /\ last_event' = [type |-> "GeminiMessage", message |-> message]
           /\ tasks' = RemoveAt(tasks, i)
           /\ is_loading' = FALSE
           /\ IF ~ArcGetMut
              THEN UNCHANGED chat_history
              ELSE chat_history' =
                     Append(chat_history, Chat("model", TurnContent(message)))
    /\ UNCHANGED <<popup, next_id, config, input_text, api_key>>

(* ------------- get_gemini_response (mod.rs 34-90), per await ----------- *)

\* What a poll of a future leaves alone.
PollFrame ==
    /\ last_event' = Poll
    /\ UNCHANGED <<app_vars, api_key>>

TaskStart_sends_first(i) ==
    /\ i \in 1..Len(tasks)
    /\ tasks[i].pc = "spawned"
    /\ tasks' = [tasks EXCEPT ![i] =
         IF api_key = None
         THEN [@ EXCEPT !.pc = "done", !.requests = @ + 1,
                        !.outcome = Some(ApiKeyNotSet)]
         ELSE [@ EXCEPT !.pc = "awaiting_send",
                        !.prompt = Some(convert_to_gemini_request(tasks[i].history)),
                        !.requests = @ + 1]]
    /\ PollFrame

\* mod.rs 35-48: the first poll, up to the await of send().  Without the
\* credential the routine returns at once; with it the request is built from
\* the history and sent.
TaskStart(i) ==
    /\ i \in 1..Len(tasks)
    /\ tasks[i].pc = "spawned"
    /\ tasks' = [tasks EXCEPT ![i] =
         IF api_key = None
         THEN [@ EXCEPT !.pc = "done", !.outcome = Some(ApiKeyNotSet)]
         ELSE [@ EXCEPT !.pc = "awaiting_send",
                        !.prompt = Some(convert_to_gemini_request(tasks[i].history)),
                        !.requests = @ + 1]]
    /\ PollFrame

TaskSendFailed_generic(i) ==
    /\ i \in 1..Len(tasks)
    /\ tasks[i].pc = "awaiting_send"
    /\ \E err \in ErrorStrings :
         tasks' = [tasks EXCEPT ![i] =
            [@ EXCEPT !.pc = "done", !.send_error = Some(err),
                      !.outcome = Some(RequestError("request failed"))]]
    /\ PollFrame

\* mod.rs 55: send() resolved to Err(err); err.to_string() is err here.
TaskSendFailed(i) ==
    /\ i \in 1..Len(tasks)
    /\ tasks[i].pc = "awaiting_send"
    /\ \E err \in ErrorStrings :
         tasks' = [tasks EXCEPT ![i] =
            [@ EXCEPT !.pc = "done", !.send_error = Some(err),
                      !.outcome = Some(RequestError(err))]]
    /\ PollFrame

\* mod.rs 49-50: send() resolved to Ok(result); the routine awaits json().
TaskSendOk(i) ==
    /\ i \in 1..Len(tasks)
    /\ tasks[i].pc = "awaiting_send"
    /\ tasks' = [tasks EXCEPT ![i] = [@ EXCEPT !.pc = "awaiting_json"]]
    /\ PollFrame

\* mod.rs 52: json() resolved to Err(err).
TaskJsonFailed(i) ==
    /\ i \in 1..Len(tasks)
    /\ tasks[i].pc = "awaiting_json"
    /\ \E err \in ErrorStrings :
         tasks' = [tasks EXCEPT ![i] =
            [@ EXCEPT !.pc = "done", !.outcome = Some(ApiResultParsingError(err))]]
    /\ PollFrame

\* mod.rs 51, 58-89: json() resolved to Ok(response); the response is
\* classified and the routine returns.
Classified(i, response) ==
    /\ tasks' = [tasks EXCEPT ![i] =
         [@ EXCEPT !.pc = "done", !.response = Some(response),
                   !.outcome = Some(ClassifyResponse(response))]]
    /\ PollFrame

\* The deserialized responses whose candidate list starts with cs and goes on
\* with at most n candidates holding at most r ratings and p parts in total.
RECURSIVE JsonOkWith(_, _, _, _, _)
JsonOkWith(i, cs, n, r, p) ==
    \/ \E e \in ErrorField : Classified(i, [error |-> e, candidates |-> Some(cs)])
    \/ /\ n > 0
       /\ \E c \in Candidate(r, p) :
            JsonOkWith(i, Append(cs, c), n - 1, r - NumRatings(c), p - NumParts(c))

TaskJsonOk(i, n, r, p) ==
    /\ i \in 1..Len(tasks)
    /\ tasks[i].pc = "awaiting_json"
    /\ \/ \E e \in ErrorField : Classified(i, [error |-> e, candidates |-> None])
       \/ JsonOkWith(i, <<>>, n, r, p)

(* ---------------------------- specifications --------------------------- *)

\* The update loop: UI messages, polls of the futures, deliveries.
Next ==
    \/ \E text \in Texts \cup {""} : InputChanged(text)
    \/ \E text \in Texts : SubmitInput(text)
    \/ UrlClicked
    \/ SubscriptionChannel
    \/ \E c \in Configs : UpdateConfig(c)
    \/ TogglePopup
    \/ \E id \in 1..MaxPopupIds : PopupClosed(id)
    \/ \E i \in 1..Len(tasks) : TaskStart(i)
    \/ \E i \in 1..Len(tasks) : TaskSendFailed(i)
    \/ \E i \in 1..Len(tasks) : TaskSendOk(i)
    \/ \E i \in 1..Len(tasks) : TaskJsonFailed(i)
    \/ \E i \in 1..Len(tasks) : TaskJsonOk(i, 1, 1, 1)
    \/ \E i \in 1..Len(tasks) : GeminiMessage(i)

Spec == Init /\ [][Next]_vars

\* A step of a future that is ready to go on: its first poll, or the poll
\* after send() or json() has resolved (to a value or to a failure).
PollStep ==
    \E i \in 1..Len(tasks) :
        \/ TaskStart(i)
        \/ TaskSendFailed(i) \/ TaskSendOk(i)
        \/ TaskJsonFailed(i) \/ TaskJsonOk(i, 1, 1, 1)

\* The runtime's scheduling: the executor keeps polling a future that can go
\* on, and the output of a completed future is delivered to update.
Fairness ==
    /\ WF_vars(PollStep)
    /\ WF_vars(\E i \in 1..Len(tasks) : GeminiMessage(i))

SpecLive == Init /\ [][Next]_vars /\ Fairness

\* One request whose send() has resolved to Ok: the state reached from Init by
\* SubmitInput("a"), TaskStart(1), TaskSendOk(1) with the credential set.
InitClassify ==
    /\ popup = None
    /\ next_id = 1
    /\ config = "cfg0"
    /\ input_text = ""
    /\ chat_history = <<Chat("user", "a")>>
    /\ is_loading = TRUE
    /\ api_key = Some("key")
    /\ tasks = <<[NewTask(chat_history) EXCEPT
                    !.pc = "awaiting_json",
                    !.prompt = Some(convert_to_gemini_request(chat_history)),
                    !.requests = 1]>>
    /\ last_event = Poll

\* The classification of every deserialized response within the bounds.
NextClassify ==
    \/ \E i \in 1..Len(tasks) : TaskJsonOk(i, MaxCandidates, MaxRatings, MaxParts)
    \/ \E i \in 1..Len(tasks) : GeminiMessage(i)

SpecClassify == InitClassify /\ [][NextClassify]_vars

(* ------------------------------- claims -------------------------------- *)

\* The ratings of all candidates, candidate after candidate, each candidate's
\* ratings in their order.
RECURSIVE RatingsFrom(_, _)
RatingsFrom(cands, k) ==
    IF k > Len(cands) THEN <<>>
    ELSE Flatten(cands[k].safety_ratings) \o RatingsFrom(cands, k + 1)

AllRatings(response) == RatingsFrom(Flatten(response.candidates), 1)

NoBlockedRating(response) ==
    \A j \in 1..Len(AllRatings(response)) : ~AllRatings(response)[j].blocked

\* The tasks whose response has been deserialized.
Deserialized == {i \in 1..Len(tasks) : IsSome(tasks[i].response)}

\* C1: at most one get_gemini_response call is in flight, and a SubmitInput
\* handled while is_loading is true starts no request and leaves chat_history,
\* input_text and is_loading as they were.
C1_SingleFlight ==
    /\ [](Len(tasks) <= 1)
    /\ [][(is_loading /\ last_event'.type = "SubmitInput")
            => UNCHANGED <<chat_history, input_text, is_loading, tasks>>]_vars

\* A SubmitInput("b") was handled while the request for "a" was outstanding:
\* nothing was appended, the typed text was not cleared, one request is in flight.
C1_Witness ==
    /\ is_loading
    /\ last_event = [type |-> "SubmitInput", text |-> "b"]
    /\ chat_history = <<Chat("user", "a")>>
    /\ input_text = "b"
    /\ Len(tasks) = 1

\* C2 (as claimed): with no top-level error and some blocked rating in some
\* candidate, the outcome is PromptBlocked with the category of the first
\* blocked rating in candidate-major, rating-minor order, whichever candidates
\* carry text.
C2_BlockedWhateverText ==
    \A i \in Deserialized :
        LET response == tasks[i].response[1]
            hit == FirstBlocked(AllRatings(response), 1)
        IN  (response.error = None /\ IsSome(hit))
              => tasks[i].outcome = Some(PromptBlocked(FormatBlocked(hit[1].category)))

\* C3: with a top-level error the outcome is ApiError with exactly
\* error.message, whatever candidates, ratings and parts the response holds.
C3_ErrorPreempts ==
    \A i \in Deserialized :
        LET response == tasks[i].response[1]
        IN  IsSome(response.error)
              => tasks[i].outcome = Some(ApiError(response.error[1].message))

\* An ApiError outcome for a response that also holds two candidates, a blocked
\* rating and a part with text.
C3_Witness ==
    \E i \in Deserialized :
        LET response == tasks[i].response[1]
            cands == Flatten(response.candidates)
        IN  /\ IsSome(response.error)
            /\ Len(cands) = 2
            /\ ~NoBlockedRating(response)
            /\ \E k \in 1..Len(cands) :
                 /\ cands[k].content.parts # <<>>
                 /\ IsSome(cands[k].content.parts[1].text)
            /\ tasks[i].outcome = Some(ApiError("quota exceeded"))

\* C4: without the credential every invocation returns ApiKeyNotSet and has
\* sent no request.
C4_NoKeyNoRequest ==
    \A i \in 1..Len(tasks) :
        (api_key = None /\ tasks[i].pc # "spawned")
          => /\ tasks[i].pc = "done"
             /\ tasks[i].outcome = Some(ApiKeyNotSet)
             /\ tasks[i].requests = 0

\* An invocation over a history of three turns has returned without the
\* credential.
C4_Witness ==
    /\ api_key = None
    /\ \E i \in 1..Len(tasks) :
         /\ tasks[i].pc = "done"
         /\ Len(tasks[i].history) = 3
         /\ tasks[i].outcome = Some(ApiKeyNotSet)

\* C5: with no error and no blocked rating, the part selected in the first
\* candidate whose part list is non-empty is its last part; if that part has
\* text the outcome is Response with exactly that text.
C5_LastPartOfFirstNonEmpty ==
    \A i \in Deserialized :
        LET response == tasks[i].response[1]
            cands == Flatten(response.candidates)
            nonEmpty == {k \in 1..Len(cands) : cands[k].content.parts # <<>>}
        IN  (response.error = None /\ NoBlockedRating(response) /\ nonEmpty # {})
              => LET k == CHOOSE m \in nonEmpty : \A n \in nonEmpty : m <= n
                     parts == cands[k].content.parts
                     last == parts[Len(parts)]
                 IN  IsSome(last.text)
                       => tasks[i].outcome = Some(Response(last.text[1]))

\* The second candidate is the first with parts; its parts are "reasoning" then
\* "final answer", and the outcome is Response("final answer").
C5_Witness ==
    \E i \in Deserialized :
        LET response == tasks[i].response[1]
            cands == Flatten(response.candidates)
        IN  /\ response.error = None
            /\ NoBlockedRating(response)
            /\ Len(cands) = 2
            /\ cands[1].content.parts = <<>>
            /\ cands[2].content.parts =
                 <<[text |-> Some("reasoning")], [text |-> Some("final answer")]>>
            /\ tasks[i].outcome = Some(Response("final answer"))

\* C6: handling GeminiMessage(outcome) appends exactly one "model" turn, leaves
\* the earlier turns as they were and clears is_loading, for every outcome.
C6_OneModelTurnPerCompletion ==
    [][last_event'.type = "GeminiMessage"
         => /\ last_event'.message.tag \in
                 {"ApiKeyNotSet", "RequestError", "ApiResultParsingError",
                  "ApiError", "PromptBlocked", "EmptyResponse", "Response"}
            /\ Len(chat_history') = Len(chat_history) + 1
            /\ SubSeq(chat_history', 1, Len(chat_history)) = chat_history
            /\ chat_history'[Len(chat_history')].role = "model"
            /\ is_loading' = FALSE]_vars

\* An EmptyResponse completion was handled after a submission: the second
\* turn is its "model" turn, after the user's turn.
C6_Witness ==
    /\ last_event = [type |-> "GeminiMessage", message |-> EmptyResponse]
    /\ Len(chat_history) = 2
    /\ chat_history[1] = Chat("user", "b")
    /\ chat_history[2] = Chat("model", "No response from model")
    /\ ~is_loading
    /\ tasks = <<>>

\* C7: when send() fails the outcome is RequestError with the failure's
\* description, one request was sent and no response was deserialized.
C7_TransportError ==
    \A i \in 1..Len(tasks) :
        IsSome(tasks[i].send_error)
          => /\ tasks[i].pc = "done"
             /\ tasks[i].outcome = Some(RequestError(tasks[i].send_error[1]))
             /\ tasks[i].response = None
             /\ tasks[i].requests = 1

\* An invocation with the credential set whose send() failed with "timeout".
C7_Witness ==
    /\ IsSome(api_key)
    /\ \E i \in 1..Len(tasks) :
         /\ tasks[i].send_error = Some("timeout")
         /\ tasks[i].outcome = Some(RequestError("timeout"))

\* C8: with no error and no blocked rating, if every candidate's part list is
\* empty or ends in a part without text (or there are no candidates), the
\* outcome is EmptyResponse.
C8_NoUsableText ==
    \A i \in Deserialized :
        LET response == tasks[i].response[1]
            cands == Flatten(response.candidates)
        IN  (/\ response.error = None
             /\ NoBlockedRating(response)
             /\ \A k \in 1..Len(cands) :
                  LET parts == cands[k].content.parts
                  IN  parts = <<>> \/ parts[Len(parts)].text = None)
              => tasks[i].outcome = Some(EmptyResponse)

\* Two candidates, one without parts and one whose parts end in a part without
\* text after a part with text: EmptyResponse.
C8_Witness ==
    \E i \in Deserialized :
        LET response == tasks[i].response[1]
            cands == Flatten(response.candidates)
        IN  /\ response.error = None
            /\ NoBlockedRating(response)
            /\ Len(cands) = 2
            /\ cands[1].content.parts = <<[text |-> Some("reasoning")], [text |-> None]>>
            /\ cands[2].content.parts = <<>>
            /\ tasks[i].outcome = Some(EmptyResponse)

\* Reading a request back: the role and the text of the one part of each entry.
ReadBack(request) ==
    [k \in 1..Len(request.contents) |->
        Chat(request.contents[k].role, request.contents[k].parts[1].text)]

\* C9: the request built from a history of N turns has N entries in the order
\* of the turns, entry k with turn k's role and exactly one part holding turn
\* k's content, so reading it back gives the history.
C9_RequestMirrorsHistory ==
    \A i \in 1..Len(tasks) :
        IsSome(tasks[i].prompt)
          => LET request == tasks[i].prompt[1]
                 history == tasks[i].history
             IN  /\ Len(request.contents) = Len(history)
                 /\ \A k \in 1..Len(history) :
                      /\ request.contents[k].role = history[k].role
                      /\ Len(request.contents[k].parts) = 1
                      /\ request.contents[k].parts[1].text = history[k].content
                 /\ ReadBack(request) = history

\* A request built from a history of three turns whose user turns differ.
C9_Witness ==
    \E i \in 1..Len(tasks) :
        /\ IsSome(tasks[i].prompt)
        /\ Len(tasks[i].history) = 3
        /\ tasks[i].history[1].content = "a"
        /\ tasks[i].history[3].content = "b"
        /\ Len(tasks[i].prompt[1].contents) = 3

\* C10: chat_history alternates "user", "model", ... from a "user" turn, and
\* is_loading holds exactly when its length is odd.
C10_AlternationAndLoading ==
    /\ \A k \in 1..Len(chat_history) :
         chat_history[k].role = IF k % 2 = 1 THEN "user" ELSE "model"
    /\ is_loading <=> (Len(chat_history) % 2 = 1)

\* A second submission is awaiting its reply after a full exchange, with popup
\* and configuration messages handled in between.
C10_Witness ==
    /\ Len(chat_history) = 3
    /\ is_loading
    /\ IsSome(popup)
    /\ last_event.type = "UpdateConfig"

\* C11: once a SubmitInput has been accepted (is_loading is set, its "user"
\* turn is the last turn), is_loading is eventually cleared; until then the
\* history stays as it is, and the step that clears is_loading is the handling
\* of a GeminiMessage, which appends a "model" turn directly after that turn.
C11_AcceptedSubmitIsAnswered ==
    /\ is_loading ~> ~is_loading
    /\ [][is_loading =>
            IF is_loading'
            THEN chat_history' = chat_history
            ELSE /\ last_event'.type = "GeminiMessage"
                 /\ chat_history[Len(chat_history)].role = "user"
                 /\ Len(chat_history') = Len(chat_history) + 1
                 /\ SubSeq(chat_history', 1, Len(chat_history)) = chat_history
                 /\ chat_history'[Len(chat_history')].role = "model"]_vars

\* The submission of "a" was accepted and its reply, a Response, has been
\* appended right after it.
C11_Witness ==
    /\ ~is_loading
    /\ Len(chat_history) = 2
    /\ chat_history[1] = Chat("user", "a")
    /\ chat_history[2].role = "model"
    /\ last_event.type = "GeminiMessage"
    /\ last_event.message.tag = "Response"

====
